---- MODULE Spec2Model ----
(***************************************************************************)
(* A model of the web scraper of grigri201/ai-tools                        *)
(* (src/web_scraper/index.ts): the URL validator, the document text        *)
(* reducer (parseHtml) and the concurrent fetch pipeline (scrapeUrls,      *)
(* fetchPage).                                                             *)
(*                                                                         *)
(* Strings the code inspects character by character (node text, href,      *)
(* output lines) are sequences of one-character strings, so that trim,     *)
(* startsWith, the noise regular expression and the line formats are        *)
(* computed as the code computes them.                                     *)
(***************************************************************************)
EXTENDS Integers, Sequences, FiniteSets, TLC

(***************************************************************************)
(* Bounds of the model.                                                    *)
(***************************************************************************)
\* the longest input URL list
MaxUrls == 3
\* the largest value given for options.maxConcurrent
MaxConcurrentOpt == 2
\* the largest number of nodes below the top node of a generated document
MaxNodes == 3

(***************************************************************************)
(* Character strings.                                                      *)
(***************************************************************************)
Min(a, b) == IF a <= b THEN a ELSE b

\* String.prototype.trim: the white space characters of the model's alphabet
WhiteSpace == {" ", "\n", "\t"}

RECURSIVE TrimLeft(_)
TrimLeft(s) ==
    IF s = <<>> THEN <<>>
    ELSE IF Head(s) \in WhiteSpace THEN TrimLeft(Tail(s)) ELSE s

RECURSIVE TrimRight(_)
TrimRight(s) ==
    IF s = <<>> THEN <<>>
    ELSE IF s[Len(s)] \in WhiteSpace THEN TrimRight(SubSeq(s, 1, Len(s) - 1)) ELSE s

\* text.trim()
Trim(s) == TrimRight(TrimLeft(s))

\* s.startsWith(p)
StartsWith(s, p) == Len(p) <= Len(s) /\ SubSeq(s, 1, Len(p)) = p

\* p occurs in s as a substring
Contains(s, p) ==
    \E k \in 0..(Len(s) - Len(p)) : SubSeq(s, k + 1, k + Len(p)) = p

UpperCase == <<"A","B","C","D","E","F","G","H","I","J","K","L","M",
               "N","O","P","Q","R","S","T","U","V","W","X","Y","Z">>
LowerCase == <<"a","b","c","d","e","f","g","h","i","j","k","l","m",
               "n","o","p","q","r","s","t","u","v","w","x","y","z">>

LowerChar(c) ==
    IF \E k \in 1..26 : UpperCase[k] = c
    THEN LowerCase[CHOOSE k \in 1..26 : UpperCase[k] = c]
    ELSE c

ToLower(s) == [k \in 1..Len(s) |-> LowerChar(s[k])]

\* '  '.repeat(depth)
RECURSIVE Indent(_)
Indent(depth) == IF depth = 0 THEN <<>> ELSE <<" ", " ">> \o Indent(depth - 1)

\* lines.join('\n')
RECURSIVE Join(_)
Join(lines) ==
    IF lines = <<>> THEN <<>>
    ELSE IF Len(lines) = 1 THEN lines[1]
    ELSE lines[1] \o <<"\n">> \o Join(Tail(lines))

(***************************************************************************)
(* The parsed document (node-html-parser).  A node is a record             *)
(*   [tagName, href, rawText, childNodes].                                 *)
(* A text node has tagName TextTag (the library gives it no tagName), its  *)
(* characters in rawText and no children.  An element has its upper-case   *)
(* tag name, its href attribute (<<>> when absent: the code treats an       *)
(* absent and an empty href alike, line 70) and its children.  The root    *)
(* returned by parse() has tagName RootTag.                                *)
(***************************************************************************)
TextTag == "#text"
RootTag == "#root"

TextNode(s) == [tagName |-> TextTag, href |-> <<>>, rawText |-> s, childNodes |-> <<>>]
Element(tag, href, kids) == [tagName |-> tag, href |-> href, rawText |-> <<>>, childNodes |-> kids]

\* elem.text: a text node's characters; an element's text is the
\* concatenation of the text of its children
RECURSIVE NodeText(_)
RECURSIVE ForestText(_)
NodeText(elem) ==
    IF elem.tagName = TextTag THEN elem.rawText ELSE ForestText(elem.childNodes)
ForestText(kids) ==
    IF kids = <<>> THEN <<>> ELSE NodeText(Head(kids)) \o ForestText(Tail(kids))

\* root.querySelector('body'): the first BODY element in document order
\* below the node, or <<>> when there is none
RECURSIVE QueryBodyIn(_)
QueryBodyIn(kids) ==
    IF kids = <<>> THEN <<>>
    ELSE IF Head(kids).tagName = "BODY" THEN <<Head(kids)>>
    ELSE LET below == QueryBodyIn(Head(kids).childNodes)
         IN  IF below # <<>> THEN below ELSE QueryBodyIn(Tail(kids))

(***************************************************************************)
(* parseHtml (src/web_scraper/index.ts, 45-102).                           *)
(***************************************************************************)
\* shouldSkipElement (53-59)
shouldSkipElement(elem) ==
    IF elem.tagName = "SCRIPT" \/ elem.tagName = "STYLE" THEN TRUE
    ELSE Trim(NodeText(elem)) = <<>>

\* href && !href.startsWith('#') && !href.startsWith('javascript:') (70)
JavascriptScheme == <<"j","a","v","a","s","c","r","i","p","t",":">>
LinkHrefOk(href) ==
    /\ href # <<>>
    /\ ~StartsWith(href, <<"#">>)
    /\ ~StartsWith(href, JavascriptScheme)

\* `[${text}](${href})` (71)
LinkText(text, href) == <<"[">> \o text \o <<"]", "(">> \o href \o <<")">>

\* processElement's body without the seenTexts test of line 66
EmitElementNoDedupe(elem, depth, st) ==
    LET text == Trim(NodeText(elem)) IN
    IF text # <<>>
    THEN IF elem.tagName = "A"
         THEN IF LinkHrefOk(elem.href)
              THEN [result |-> Append(st.result, Indent(depth) \o LinkText(text, elem.href)),
                    seenTexts |-> st.seenTexts \cup {text}]
              ELSE st
         ELSE [result |-> Append(st.result, Indent(depth) \o text),
               seenTexts |-> st.seenTexts \cup {text}]
    ELSE st

\* The body of processElement for one node, before the loop over the
\* children (66-79).  st = [result, seenTexts].
EmitElement(elem, depth, st) ==
    LET text == Trim(NodeText(elem)) IN
    IF text # <<>> /\ text \notin st.seenTexts
    THEN IF elem.tagName = "A"
         THEN IF LinkHrefOk(elem.href)
              THEN [result |-> Append(st.result, Indent(depth) \o LinkText(text, elem.href)),
                    seenTexts |-> st.seenTexts \cup {text}]
              ELSE st
         ELSE [result |-> Append(st.result, Indent(depth) \o text),
               seenTexts |-> st.seenTexts \cup {text}]
    ELSE st

\* processElement (61-84) and its loop over elem.childNodes (81-83)
RECURSIVE processElement(_, _, _)
RECURSIVE processChildren(_, _, _)
processElement(elem, depth, st) ==
    IF shouldSkipElement(elem) THEN st
    ELSE processChildren(elem.childNodes, depth + 1, EmitElement(elem, depth, st))
processChildren(kids, depth, st) ==
    IF kids = <<>> THEN st
    ELSE processChildren(Tail(kids), depth, processElement(Head(kids), depth, st))

\* /var |function\(\)|\.js|\.css|google-analytics|disqus|\{|\}/i (95)
NoisePatterns ==
    { <<"v","a","r"," ">>,
      <<"f","u","n","c","t","i","o","n","(",")">>,
      <<".","j","s">>,
      <<".","c","s","s">>,
      <<"g","o","o","g","l","e","-","a","n","a","l","y","t","i","c","s">>,
      <<"d","i","s","q","u","s">>,
      <<"{">>,
      <<"}">> }
IsNoise(line) == \E p \in NoisePatterns : Contains(ToLower(line), p)

\* result.filter(line => !noise.test(line)) (94-95)
RECURSIVE FilterNoise(_)
FilterNoise(lines) ==
    IF lines = <<>> THEN <<>>
    ELSE IF IsNoise(Head(lines)) THEN FilterNoise(Tail(lines))
    ELSE <<Head(lines)>> \o FilterNoise(Tail(lines))

(***************************************************************************)
(* An HTML value handed to parseHtml is a record [kind, root]:             *)
(*   kind "null"      the null fetchPage returns on a failed fetch,        *)
(*   kind "empty"     the empty string,                                    *)
(*   kind "malformed" a string on which the try block throws,              *)
(*   kind "html"      a string that parse() turns into the tree root.      *)
(***************************************************************************)
EmptyRoot == Element(RootTag, <<>>, <<>>)
NullHtml == [kind |-> "null", root |-> EmptyRoot]
EmptyHtml == [kind |-> "empty", root |-> EmptyRoot]
MalformedHtml == [kind |-> "malformed", root |-> EmptyRoot]
Html(root) == [kind |-> "html", root |-> root]

\* the lines that survive the filter, before they are joined (86-95)
ReducedLines(htmlContent) ==
    IF htmlContent.kind # "html" THEN <<>>
    ELSE LET root == htmlContent.root
             body == QueryBodyIn(root.childNodes)
             start == IF body # <<>> THEN body[1] ELSE root
             st == processElement(start, 0, [result |-> <<>>, seenTexts |-> {}])
         IN  FilterNoise(st.result)

\* parseHtml (45-102): "" for null and for the empty string (46) and when
\* the try block throws (98-101)
parseHtml(htmlContent) == Join(ReducedLines(htmlContent))

(***************************************************************************)
(* validateUrl (104-111).  `new URL(url)` is the platform's parser: it is  *)
(* given here by its result on each string of the model's inputs, either   *)
(* a thrown TypeError (ok = FALSE) or the protocol and host it reports.    *)
(***************************************************************************)
UrlStrings ==
    { "https://example.com", "https://example.org", "not a url", "mailto:user@example.com" }

NewURL(url) ==
    CASE url = "https://example.com" ->
            [ok |-> TRUE, protocol |-> "https:", host |-> "example.com"]
      [] url = "https://example.org" ->
            [ok |-> TRUE, protocol |-> "https:", host |-> "example.org"]
      [] url = "mailto:user@example.com" ->
            [ok |-> TRUE, protocol |-> "mailto:", host |-> ""]
      [] OTHER ->
            [ok |-> FALSE, protocol |-> "", host |-> ""]

\* validateUrl, mutated: the host is not looked at
validateUrlProtocolOnly(url) ==
    LET parsed == NewURL(url) IN parsed.ok /\ parsed.protocol # ""

validateUrl(url) ==
    LET parsed == NewURL(url)
    IN  IF ~parsed.ok THEN FALSE
        ELSE parsed.protocol # "" /\ parsed.host # ""

\* urls.filter(url => validateUrl(url)) (122-128)
RECURSIVE FilterValid(_)
FilterValid(list) ==
    IF list = <<>> THEN <<>>
    ELSE IF validateUrl(Head(list)) THEN <<Head(list)>> \o FilterValid(Tail(list))
    ELSE FilterValid(Tail(list))

(***************************************************************************)
(* scrapeUrls (113-176) and fetchPage (28-43).                             *)
(***************************************************************************)
\* options.maxConcurrent || 5 (117)
DefaultMaxConcurrent == 5
MaxConcurrentOf(opt) == IF opt = 0 THEN DefaultMaxConcurrent ELSE opt

\* validUrls.length === 0 (130), mutated: the check is dropped
NoValidUrlsNever(valid) == FALSE

NoValidUrls(valid) == Len(valid) = 0

\* Math.min(validUrls.length, maxConcurrent) (139)
NumContexts(valid, k) == Min(Len(valid), k)

\* validUrls.slice(i, i + maxConcurrent) (148), mutated: one element short
BatchShort(valid, i, k) == SubSeq(valid, i + 1, Min(i + k, Len(valid)) - 1)

\* validUrls.slice(i, i + maxConcurrent) (148), mutated: one element more
BatchWide(valid, i, k) == SubSeq(valid, i + 1, Min(i + k + 1, Len(valid)))

Batch(valid, i, k) == SubSeq(valid, i + 1, Min(i + k, Len(valid)))

\* contexts[index % contexts.length] (150), mutated: every fetch is given the
\* first session
ContextIndexFirst(index, n) == 1

\* contexts[index % contexts.length] (150), as a position 1..n
ContextIndex(index, n) == (index % n) + 1

\* the pages the render backend serves: what page.content() may return
PageHello ==
    Html(Element(RootTag, <<>>, <<
        Element("BODY", <<>>, <<
            Element("P", <<>>, << TextNode(<<"H","e","l","l","o">>) >>) >>) >>))
PageLink ==
    Html(Element(RootTag, <<>>, <<
        Element("BODY", <<>>, <<
            Element("P", <<>>, << TextNode(<<"H","i">>) >>),
            Element("A", <<"/","x">>, << TextNode(<<"G","o">>) >>) >>) >>))
\* A fetch holds the HTML it read by name; HtmlOf gives the value
\* the page each site serves: the two valid URLs serve different pages
PageServedAt(url) == IF url = "https://example.com" THEN "hello" ELSE "link"
HtmlOf(name) ==
    CASE name = "hello" -> PageHello
      [] name = "link" -> PageLink
      [] OTHER -> NullHtml

\* parseHtml(htmlContent) (160) for each value a fetch can hold, each
\* reduction written as a definition of its own so that it is computed once
ParsedHello == parseHtml(PageHello)
ParsedLink == parseHtml(PageLink)
ParsedNull == parseHtml(NullHtml)
Parsed(name) ==
    CASE name = "hello" -> ParsedHello
      [] name = "link" -> ParsedLink
      [] OTHER -> ParsedNull

\* the record pushed for one URL of a batch (158-164); error "" stands for
\* undefined
Record(url, htmlContent) ==
    [url |-> url,
     title |-> url,
     content |-> Parsed(htmlContent),
     error |-> IF HtmlOf(htmlContent).kind = "null" THEN "Failed to fetch page" ELSE ""]

VARIABLES
    urls,           \* the argument urls
    maxConcurrentOpt, \* options.maxConcurrent (0 would stand for "not given")
    pc,             \* where scrapeUrls stands
    validUrls,      \* validUrls (122)
    browser,        \* the browser instance: its state and the close() calls made
    contexts,       \* the sessions asked of browser.newContext(), in order
    i,              \* the loop variable of the wave loop (147)
    fetches,        \* every fetchPage call made, in dispatch order
    batchPromises,  \* the current wave's fetchPage calls (149), as positions in fetches
    results,        \* results (135)
    pendingError,   \* the error thrown in the try block, while finally runs
    outcome,        \* how the call ended
    doc,            \* the HTML value given to a call of parseHtml alone
    reduced,        \* what that call returned
    llm             \* one call of queryLLM: its arguments, the environment, its course

vars == << urls, maxConcurrentOpt, pc, validUrls, browser, contexts, i, fetches,
           batchPromises, results, pendingError, outcome, doc, reduced, llm >>

scraperVars == << urls, maxConcurrentOpt, pc, validUrls, browser, contexts, i, fetches,
                  batchPromises, results, pendingError, outcome >>

maxConcurrent == MaxConcurrentOf(maxConcurrentOpt)

Pending == [kind |-> "pending", value |-> <<>>, error |-> ""]
Returned(v) == [kind |-> "returned", value |-> v, error |-> ""]
Thrown(e) == [kind |-> "thrown", value |-> <<>>, error |-> e]

InputError == "No valid URLs provided"

\* all lists of at most n URL strings
RECURSIVE UrlLists(_)
UrlLists(n) ==
    IF n = 0 THEN { <<>> }
    ELSE LET shorter == UrlLists(n - 1)
         IN  shorter \cup { Append(l, u) : l \in { s \in shorter : Len(s) = n - 1 }, u \in UrlStrings }

ReducerIdle ==
    /\ doc = NullHtml
    /\ reduced = [done |-> FALSE, text |-> <<>>]

\* a value that may be null or absent is a list of at most one element
Null == <<>>
\* no call of queryLLM is made
LLMIdle ==
    llm = [prompt |-> "", model |-> "o1", apiKey |-> Null, pc |-> "idle",
           failure |-> "", outcome |-> [kind |-> "pending", content |-> Null, error |-> Null]]

ScraperInit ==
    /\ pc = "start"
    /\ validUrls = <<>>
    /\ browser = [state |-> "none", launches |-> 0, closes |-> 0]
    /\ contexts = <<>>
    /\ i = 0
    /\ fetches = <<>>
    /\ batchPromises = <<>>
    /\ results = <<>>
    /\ pendingError = ""
    /\ outcome = Pending

Init ==
    /\ urls \in UrlLists(MaxUrls)
    /\ maxConcurrentOpt \in 1..MaxConcurrentOpt
    /\ ScraperInit
    /\ ReducerIdle
    /\ LLMIdle

(***************************************************************************)
(* Helpers on the state.                                                   *)
(***************************************************************************)
\* browser.close() is invoked (172)
CallBrowserClose(b) == [b EXCEPT !.state = "closing", !.closes = @ + 1]

\* the try block is left (137, 171-173), mutated: a catch-less try with no
\* finally, the close being the last statement of the block
LeaveTryNoFinally(b, error) == IF error = "" THEN CallBrowserClose(b) ELSE b

\* the try block is left, normally or by the error thrown in it: the finally
\* block calls browser.close() (171-173)
LeaveTry(b, error) == CallBrowserClose(b)

\* await Promise.all(batchPromises) (154), mutated: the first promise to
\* fulfil resumes the loop (Promise.race)
WaveFulfilledByFirst(all, promises) ==
    \E x \in 1..Len(promises) : all[promises[x]].pc = "fulfilled"

\* await Promise.all(batchPromises) (154) fulfils when every promise has
WaveFulfilled(all, promises) ==
    \A x \in 1..Len(promises) : all[promises[x]].pc = "fulfilled"

\* await Promise.all(batchPromises) (154), mutated: a rejection is never seen
\* (the promises are awaited with a combinator that does not reject)
WaveHasRejectedNever(all, promises) == FALSE

\* await Promise.all(batchPromises) (154) rejects when a promise has
WaveHasRejected(all, promises) ==
    \E x \in 1..Len(promises) : all[promises[x]].pc = "rejected"

\* fetchPage(url, context) is called (151): context.newPage() is pending (29)
NewFetch(url, position, context) ==
    [url |-> url, position |-> position, context |-> context,
     pc |-> "newPage", html |-> "null", page |-> "none", pageCloses |-> 0]

\* batch.map((url, index) => fetchPage(url, contexts[index % contexts.length]))
\* (148-152) for the wave that starts at i0
WaveFetches(i0) ==
    LET batch == Batch(validUrls, i0, maxConcurrent)
    IN  [x \in 1..Len(batch) |->
            NewFetch(batch[x], i0 + x, ContextIndex(x - 1, Len(contexts)))]

\* htmlContents[index] (154, 158), mutated: every slot reads the first promise
HtmlContentFirst(promises, index) == fetches[promises[1]].html

\* htmlContents[index] (154, 158): Promise.all keeps the order of the promises
HtmlContent(promises, index) == fetches[promises[index]].html

\* batch.forEach((url, index) => results.push(...)) (157-165)
WaveRecords ==
    LET batch == Batch(validUrls, i, maxConcurrent)
    IN  [x \in 1..Len(batch) |-> Record(batch[x], HtmlContent(batchPromises, x))]

\* a fetchPage call that has started and has not settled
FetchPending(f) == f.pc \in {"newPage", "goto", "networkidle", "content", "close"}
\* the page of the call is open: created, and its close() has not settled
PageOpen(f) == f.page \in {"open", "closing"}

(***************************************************************************)
(* scrapeUrls: the orchestrator's steps, each from one await to the next.  *)
(***************************************************************************)
\* 117-134: defaults, validation, the input error, chromium.launch()
Start ==
    /\ pc = "start"
    /\ LET valid == FilterValid(urls) IN
        /\ validUrls' = valid
        /\ IF NoValidUrls(valid)
           THEN /\ outcome' = Thrown(InputError)
                /\ pc' = "done"
                /\ UNCHANGED browser
           ELSE /\ browser' = [browser EXCEPT !.state = "launching", !.launches = @ + 1]
                /\ pc' = "launch"
                /\ UNCHANGED outcome
    /\ UNCHANGED << urls, maxConcurrentOpt, contexts, i, fetches, batchPromises,
                    results, pendingError, doc, reduced, llm >>

\* 134-144: the browser is up; numContexts sessions are asked for
LaunchOk ==
    /\ pc = "launch"
    /\ browser' = [browser EXCEPT !.state = "open"]
    /\ contexts' = [j \in 1..NumContexts(validUrls, maxConcurrent) |->
                        [state |-> "creating", closes |-> 0]]
    /\ pc' = "newContexts"
    /\ UNCHANGED << urls, maxConcurrentOpt, validUrls, i, fetches, batchPromises,
                    results, pendingError, outcome, doc, reduced, llm >>

\* 134: chromium.launch() rejects, outside the try block
LaunchFail ==
    /\ pc = "launch"
    /\ browser' = [browser EXCEPT !.state = "launchFailed"]
    /\ outcome' = Thrown("launch failed")
    /\ pc' = "done"
    /\ UNCHANGED << urls, maxConcurrentOpt, validUrls, contexts, i, fetches,
                    batchPromises, results, pendingError, doc, reduced, llm >>

\* 142: one browser.newContext() fulfils
ContextCreated(j) ==
    /\ contexts[j].state = "creating"
    /\ contexts' = [contexts EXCEPT ![j].state = "open"]
    /\ UNCHANGED << urls, maxConcurrentOpt, pc, validUrls, browser, i, fetches,
                    batchPromises, results, pendingError, outcome, doc, reduced, llm >>

\* 142: one browser.newContext() rejects
ContextCreateFail(j) ==
    /\ contexts[j].state = "creating"
    /\ contexts' = [contexts EXCEPT ![j].state = "failed"]
    /\ UNCHANGED << urls, maxConcurrentOpt, pc, validUrls, browser, i, fetches,
                    batchPromises, results, pendingError, outcome, doc, reduced, llm >>

\* 140-152: Promise.all of the sessions fulfils; the first wave is dispatched
ContextsReady ==
    /\ pc = "newContexts"
    /\ \A j \in 1..Len(contexts) : contexts[j].state = "open"
    /\ i' = 0
    /\ LET wave == WaveFetches(0) IN
        /\ fetches' = fetches \o wave
        /\ batchPromises' = [x \in 1..Len(wave) |-> Len(fetches) + x]
    /\ pc' = "wave"
    /\ UNCHANGED << urls, maxConcurrentOpt, validUrls, browser, contexts, results,
                    pendingError, outcome, doc, reduced, llm >>

\* 140-144, 171-172: Promise.all of the sessions rejects; finally runs
ContextsRejected ==
    /\ pc = "newContexts"
    /\ \E j \in 1..Len(contexts) : contexts[j].state = "failed"
    /\ pendingError' = "newContext failed"
    /\ browser' = LeaveTry(browser, pendingError')
    /\ pc' = "browserClose"
    /\ UNCHANGED << urls, maxConcurrentOpt, validUrls, contexts, i, fetches,
                    batchPromises, results, outcome, doc, reduced, llm >>

\* 154-169: the wave's Promise.all fulfils: the records are pushed, then
\* either the next wave is dispatched or every session's close() is called
WaveDone ==
    /\ pc = "wave"
    /\ WaveFulfilled(fetches, batchPromises)
    /\ results' = results \o WaveRecords
    /\ i' = i + maxConcurrent
    /\ IF i' < Len(validUrls)
       THEN LET wave == WaveFetches(i') IN
            /\ fetches' = fetches \o wave
            /\ batchPromises' = [x \in 1..Len(wave) |-> Len(fetches) + x]
            /\ pc' = "wave"
            /\ UNCHANGED contexts
       ELSE /\ contexts' = [j \in 1..Len(contexts) |->
                                [contexts[j] EXCEPT !.state = "closing", !.closes = @ + 1]]
            /\ pc' = "closeContexts"
            /\ UNCHANGED << fetches, batchPromises >>
    /\ UNCHANGED << urls, maxConcurrentOpt, validUrls, browser, pendingError,
                    outcome, doc, reduced, llm >>

\* 154, 171-172: the wave's Promise.all rejects; finally runs
WaveRejected ==
    /\ pc = "wave"
    /\ WaveHasRejected(fetches, batchPromises)
    /\ pendingError' = "fetchPage rejected"
    /\ browser' = LeaveTry(browser, pendingError')
    /\ pc' = "browserClose"
    /\ UNCHANGED << urls, maxConcurrentOpt, validUrls, contexts, i, fetches,
                    batchPromises, results, outcome, doc, reduced, llm >>

\* 169: one context.close() fulfils
ContextCloseOk(j) ==
    /\ contexts[j].state = "closing"
    /\ contexts' = [contexts EXCEPT ![j].state = "closed"]
    /\ UNCHANGED << urls, maxConcurrentOpt, pc, validUrls, browser, i, fetches,
                    batchPromises, results, pendingError, outcome, doc, reduced, llm >>

\* 169: one context.close() rejects
ContextCloseFail(j) ==
    /\ contexts[j].state = "closing"
    /\ contexts' = [contexts EXCEPT ![j].state = "closeFailed"]
    /\ UNCHANGED << urls, maxConcurrentOpt, pc, validUrls, browser, i, fetches,
                    batchPromises, results, pendingError, outcome, doc, reduced, llm >>

\* 169-172: Promise.all of the closes fulfils; finally runs
ContextsClosed ==
    /\ pc = "closeContexts"
    /\ \A j \in 1..Len(contexts) : contexts[j].state = "closed"
    /\ browser' = LeaveTry(browser, pendingError)
    /\ pc' = "browserClose"
    /\ UNCHANGED << urls, maxConcurrentOpt, validUrls, contexts, i, fetches,
                    batchPromises, results, pendingError, outcome, doc, reduced, llm >>

\* 169-172: Promise.all of the closes rejects; finally runs
ContextsCloseRejected ==
    /\ pc = "closeContexts"
    /\ \E j \in 1..Len(contexts) : contexts[j].state = "closeFailed"
    /\ pendingError' = "context.close failed"
    /\ browser' = LeaveTry(browser, pendingError')
    /\ pc' = "browserClose"
    /\ UNCHANGED << urls, maxConcurrentOpt, validUrls, contexts, i, fetches,
                    batchPromises, results, outcome, doc, reduced, llm >>

\* 172-175: browser.close() fulfils: the pending error is rethrown, or
\* results is returned
BrowserCloseOk ==
    /\ pc = "browserClose"
    /\ browser' = [browser EXCEPT !.state = "closed"]
    /\ outcome' = IF pendingError # "" THEN Thrown(pendingError) ELSE Returned(results)
    /\ pc' = "done"
    /\ UNCHANGED << urls, maxConcurrentOpt, validUrls, contexts, i, fetches,
                    batchPromises, results, pendingError, doc, reduced, llm >>

\* 172: browser.close() rejects: its error leaves the finally block
BrowserCloseFail ==
    /\ pc = "browserClose"
    /\ browser' = [browser EXCEPT !.state = "closeFailed"]
    /\ outcome' = Thrown("browser.close failed")
    /\ pc' = "done"
    /\ UNCHANGED << urls, maxConcurrentOpt, validUrls, contexts, i, fetches,
                    batchPromises, results, pendingError, doc, reduced, llm >>

(***************************************************************************)
(* fetchPage: the steps of one call, each from one await to the next.      *)
(***************************************************************************)
FetchStep(f, next) ==
    /\ fetches' = [fetches EXCEPT ![f] = next]
    /\ UNCHANGED << urls, maxConcurrentOpt, pc, validUrls, browser, contexts, i,
                    batchPromises, results, pendingError, outcome, doc, reduced, llm >>

\* the catch block (37-39) with no finally block after it: null is returned
\* and the page is left as it is
CatchNoClose(fetch) == [fetch EXCEPT !.pc = "fulfilled", !.html = "null"]

\* the catch and finally blocks (37-41): null is the result, page.close() is called
CatchAndClose(fetch) ==
    [fetch EXCEPT !.pc = "close", !.html = "null", !.page = "closing",
                  !.pageCloses = @ + 1]

\* 29-32: context.newPage() fulfils; page.goto(url) is called
NewPageOk(f) ==
    /\ fetches[f].pc = "newPage"
    /\ FetchStep(f, [fetches[f] EXCEPT !.pc = "goto", !.page = "open"])

\* 29: context.newPage() rejects, outside the try block: fetchPage rejects
NewPageFail(f) ==
    /\ fetches[f].pc = "newPage"
    /\ FetchStep(f, [fetches[f] EXCEPT !.pc = "rejected"])

\* 32-33: page.goto() fulfils; page.waitForLoadState('networkidle') is called
GotoOk(f) ==
    /\ fetches[f].pc = "goto"
    /\ FetchStep(f, [fetches[f] EXCEPT !.pc = "networkidle"])

\* 32, 37-41: page.goto() rejects
GotoFail(f) ==
    /\ fetches[f].pc = "goto"
    /\ FetchStep(f, CatchAndClose(fetches[f]))

\* 33-34: the network is idle; page.content() is called
NetworkIdleOk(f) ==
    /\ fetches[f].pc = "networkidle"
    /\ FetchStep(f, [fetches[f] EXCEPT !.pc = "content"])

\* 33, 37-41: page.waitForLoadState() rejects
NetworkIdleFail(f) ==
    /\ fetches[f].pc = "networkidle"
    /\ FetchStep(f, CatchAndClose(fetches[f]))

\* 34-36, 40-41: page.content() fulfils with the page's HTML; finally runs
ContentOk(f) ==
    /\ fetches[f].pc = "content"
    /\ FetchStep(f, [fetches[f] EXCEPT !.pc = "close",
                                        !.html = PageServedAt(fetches[f].url),
                                        !.page = "closing",
                                        !.pageCloses = @ + 1])

\* 34, 37-41: page.content() rejects
ContentFail(f) ==
    /\ fetches[f].pc = "content"
    /\ FetchStep(f, CatchAndClose(fetches[f]))

\* 41: page.close() fulfils: fetchPage fulfils with the HTML or with null
PageCloseOk(f) ==
    /\ fetches[f].pc = "close"
    /\ FetchStep(f, [fetches[f] EXCEPT !.pc = "fulfilled", !.page = "closed"])

\* 41: page.close() rejects inside finally: fetchPage rejects
PageCloseFail(f) ==
    /\ fetches[f].pc = "close"
    /\ FetchStep(f, [fetches[f] EXCEPT !.pc = "rejected", !.page = "closeFailed"])

Next ==
    \/ Start
    \/ LaunchOk
    \/ LaunchFail
    \/ \E j \in 1..Len(contexts) : ContextCreated(j)
    \/ \E j \in 1..Len(contexts) : ContextCreateFail(j)
    \/ ContextsReady
    \/ ContextsRejected
    \/ \E f \in 1..Len(fetches) : NewPageOk(f)
    \/ \E f \in 1..Len(fetches) : NewPageFail(f)
    \/ \E f \in 1..Len(fetches) : GotoOk(f)
    \/ \E f \in 1..Len(fetches) : GotoFail(f)
    \/ \E f \in 1..Len(fetches) : NetworkIdleOk(f)
    \/ \E f \in 1..Len(fetches) : NetworkIdleFail(f)
    \/ \E f \in 1..Len(fetches) : ContentOk(f)
    \/ \E f \in 1..Len(fetches) : ContentFail(f)
    \/ \E f \in 1..Len(fetches) : PageCloseOk(f)
    \/ \E f \in 1..Len(fetches) : PageCloseFail(f)
    \/ WaveDone
    \/ WaveRejected
    \/ \E j \in 1..Len(contexts) : ContextCloseOk(j)
    \/ \E j \in 1..Len(contexts) : ContextCloseFail(j)
    \/ ContextsClosed
    \/ ContextsCloseRejected
    \/ BrowserCloseOk
    \/ BrowserCloseFail

Spec == Init /\ [][Next]_vars

(***************************************************************************)
(* scrapeUrls on lists of valid URLs, where every operation of the render  *)
(* backend settles and every continuation that is ready is run: a step     *)
(* that can be taken is eventually taken.  Every step of Next is the       *)
(* settling of a pending operation or the continuation that follows one.   *)
(***************************************************************************)
InitLive ==
    /\ Init
    /\ \A k \in 1..Len(urls) : validateUrl(urls[k])

SpecLive == InitLive /\ [][Next]_vars /\ WF_vars(Next)

(***************************************************************************)
(* parseHtml alone, on generated documents.                                *)
(*                                                                         *)
(* The documents are all trees of at most MaxNodes nodes below the top     *)
(* node, with or without a BODY element.  A SCRIPT or STYLE element holds  *)
(* its source as one text node, as the parser keeps it.                    *)
(***************************************************************************)
TextList == << <<"H","i">>, <<" ","T","o","p"," ">>, <<" ">> >>
ScriptTextList == << <<"x","(",")">>, <<"v","a","r"," ","x">> >>
HrefList == << <<>>, <<"#","t">>, JavascriptScheme, <<"/","x">> >>
BlockTextTags == << "SCRIPT", "STYLE" >>

\* The documents are listed, not collected in a set: a list is built
\* without comparing its elements.
RECURSIVE Flatten(_)
Flatten(lists) == IF lists = <<>> THEN <<>> ELSE Head(lists) \o Flatten(Tail(lists))

\* every pair of an element of xs and an element of ys
PairsOf(xs, ys) ==
    [n \in 1..(Len(xs) * Len(ys)) |->
        << xs[((n - 1) \div Len(ys)) + 1], ys[((n - 1) % Len(ys)) + 1] >>]

\* the trees of exactly n nodes, given the forests of n - 1 nodes
TreesOver(n, smaller) ==
    LET links == PairsOf(HrefList, smaller)
        blocks == PairsOf(BlockTextTags, ScriptTextList)
    IN  (IF n = 1 THEN [k \in 1..Len(TextList) |-> TextNode(TextList[k])] ELSE <<>>)
        \o [k \in 1..Len(smaller) |-> Element("P", <<>>, smaller[k])]
        \o [k \in 1..Len(links) |-> Element("A", links[k][1], links[k][2])]
        \o (IF n = 2
            THEN [k \in 1..Len(blocks) |->
                    Element(blocks[k][1], <<>>, << TextNode(blocks[k][2]) >>)]
            ELSE <<>>)

\* ForestTable(n)[k + 1] lists the sequences of trees of exactly k nodes in
\* all, for k in 0..n
RECURSIVE ForestTable(_)
ForestTable(n) ==
    IF n = 0 THEN << << <<>> >> >>
    ELSE LET table == ForestTable(n - 1)
             Forests(k) ==
                LET pairs == PairsOf(TreesOver(k, table[k]), table[n - k + 1])
                IN  [m \in 1..Len(pairs) |-> << pairs[m][1] >> \o pairs[m][2]]
         IN  Append(table, Flatten([k \in 1..n |-> Forests(k)]))

\* the top node's children, for every document of at most MaxNodes nodes
TopForests == Flatten(ForestTable(MaxNodes))

WithBody(f) == Html(Element(RootTag, <<>>, << Element("BODY", <<>>, f) >>))
WithoutBody(f) == Html(Element(RootTag, <<>>, f))

\* <body><p>Hello</p><p>Hello</p></body>: two sibling elements with the
\* same text
HelloTwice ==
    Html(Element(RootTag, <<>>, <<
        Element("BODY", <<>>, <<
            Element("P", <<>>, << TextNode(<<"H","e","l","l","o">>) >>),
            Element("P", <<>>, << TextNode(<<"H","e","l","l","o">>) >>) >>) >>))

ScraperIdle ==
    /\ urls = <<>>
    /\ maxConcurrentOpt = 1
    /\ ScraperInit

InitReduce ==
    /\ ScraperIdle
    /\ \/ doc \in { NullHtml, EmptyHtml, MalformedHtml, HelloTwice }
       \/ \E n \in 1..Len(TopForests) :
            doc \in { WithBody(TopForests[n]), WithoutBody(TopForests[n]) }
    /\ reduced = [done |-> FALSE, text |-> <<>>]
    /\ LLMIdle

\* one call parseHtml(doc)
Reduce ==
    /\ ~reduced.done
    /\ reduced' = [done |-> TRUE, text |-> parseHtml(doc)]
    /\ UNCHANGED << doc, scraperVars, llm >>

NextReduce == Reduce

SpecReduce == InitReduce /\ [][NextReduce]_vars

(***************************************************************************)
(* queryLLM (llm_api/index.ts 8-41), one call.                             *)
(*                                                                         *)
(* The client library is not part of the repository: its constructor is    *)
(* given by what it does with the key, throwing when none is given, and    *)
(* the completion request by the ways it can settle.                       *)
(***************************************************************************)
Prompts == { "", "hi", "2+2?", "ping" }
DefaultModel == "o1"
Models == { DefaultModel, "gpt-4o", "o3-mini" }
\* process.env.OPENAI_API_KEY: unset, or a key
ApiKeys == { Null, << "sk-key" >> }

\* what a thrown value is to the catch block: an Error with its message, or
\* some other value
ErrorValue(message) == [isError |-> TRUE, message |-> message]
OtherValue == [isError |-> FALSE, message |-> ""]
MissingKey == ErrorValue("The OPENAI_API_KEY environment variable is missing or empty")
RequestErrors == { ErrorValue("401 Incorrect API key provided"),
                   ErrorValue("Connection error."),
                   OtherValue }
\* reading .message of choices[0] when choices is empty
NoChoice == ErrorValue("undefined is not an object (evaluating 'response.choices[0].message')")

\* the responses of the completion API: the list of the choices' contents
Responses == { <<>>, << Null >>, << << "ok" >> >>, << << "4" >>, << "four" >> >> }

LLMPending == [kind |-> "pending", content |-> Null, error |-> Null]
\* the promise of queryLLM is fulfilled with { content, error }
LLMResolved(content, error) == [kind |-> "resolved", content |-> content, error |-> error]
\* the promise of queryLLM is rejected
LLMRejected(thrown) == [kind |-> "rejected", content |-> Null, error |-> << thrown.message >>]

\* error instanceof Error ? error.message : 'Unknown error occurred' (38)
ErrorMessage(thrown) == IF thrown.isError THEN thrown.message ELSE "Unknown error occurred"
\* the catch block's return value (36-39)
Caught(thrown) == LLMResolved(Null, << ErrorMessage(thrown) >>)

InitLLM ==
    /\ ScraperIdle
    /\ ReducerIdle
    /\ \E prompt \in Prompts, model \in Models, apiKey \in ApiKeys :
            llm = [prompt |-> prompt, model |-> model, apiKey |-> apiKey,
                   pc |-> "createClient", failure |-> "", outcome |-> LLMPending]

\* 18, 8-12: createLLMClient() returns a client; the request is sent (20)
CreateClientOk ==
    /\ llm.pc = "createClient"
    /\ llm.apiKey # Null
    /\ llm' = [llm EXCEPT !.pc = "request"]
    /\ UNCHANGED << doc, reduced, scraperVars >>

\* 18, 8-12: new OpenAI() throws, before the try block is entered (19): the
\* async function's promise is rejected
CreateClientThrows ==
    /\ llm.pc = "createClient"
    /\ llm.apiKey = Null
    /\ llm' = [llm EXCEPT !.pc = "done", !.failure = "client",
                           !.outcome = LLMRejected(MissingKey)]
    /\ UNCHANGED << doc, reduced, scraperVars >>

\* 20-30: the request fulfils; choices[0].message.content is returned, or
\* reading it throws inside the try block (31-39)
RequestFulfils(response) ==
    /\ llm.pc = "request"
    /\ llm' = IF response = <<>>
              THEN [llm EXCEPT !.pc = "done", !.failure = "response",
                               !.outcome = Caught(NoChoice)]
              ELSE [llm EXCEPT !.pc = "done",
                               !.outcome = LLMResolved(response[1], Null)]
    /\ UNCHANGED << doc, reduced, scraperVars >>

\* 20, 31-39: the request rejects; the catch block returns the error as data
RequestRejects(thrown) ==
    /\ llm.pc = "request"
    /\ llm' = [llm EXCEPT !.pc = "done", !.failure = "request",
                           !.outcome = Caught(thrown)]
    /\ UNCHANGED << doc, reduced, scraperVars >>

NextLLM ==
    \/ CreateClientOk
    \/ CreateClientThrows
    \/ \E response \in Responses : RequestFulfils(response)
    \/ \E thrown \in RequestErrors : RequestRejects(thrown)

SpecLLM == InitLLM /\ [][NextLLM]_vars

(***************************************************************************)
(* Notions the properties are stated with.                                 *)
(***************************************************************************)
\* a URL carries both a protocol and a host
HasProtocolAndHost(url) ==
    /\ NewURL(url).ok
    /\ NewURL(url).protocol # ""
    /\ NewURL(url).host # ""

NoUrlIsValid == \A k \in 1..Len(urls) : ~HasProtocolAndHost(urls[k])

RECURSIVE UrlsOf(_)
UrlsOf(records) ==
    IF records = <<>> THEN <<>> ELSE <<Head(records).url>> \o UrlsOf(Tail(records))

PendingFetches == { f \in 1..Len(fetches) : FetchPending(fetches[f]) }

\* the wave a fetch belongs to, counted from 0
WaveOf(fetch) == (fetch.position - 1) \div maxConcurrent

\* an operation on a render resource (not a navigation or a read) has failed
ResourceFailure ==
    \/ browser.state \in {"launchFailed", "closeFailed"}
    \/ \E j \in 1..Len(contexts) : contexts[j].state \in {"failed", "closeFailed"}
    \/ \E f \in 1..Len(fetches) : fetches[f].pc = "rejected"

\* every wave has fulfilled and its records were appended to results
AllWavesComplete == validUrls # <<>> /\ Len(results) = Len(validUrls)

\* the fetchPage calls made for the valid URL at position p
DispatchesOf(p) == { f \in 1..Len(fetches) : fetches[f].position = p }

\* the waves dispatched so far
WavesDispatched == { WaveOf(fetches[f]) : f \in 1..Len(fetches) }
\* ceil(n / k)
CeilDiv(n, k) == (n + k - 1) \div k

\* the session was created
Created(context) == context.state \notin {"creating", "failed"}
\* the browser instance was launched
Launched == browser.state \notin {"none", "launching", "launchFailed"}

\* the lines of a text
RECURSIVE LinesOf(_, _)
LinesOf(text, line) ==
    IF text = <<>> THEN << line >>
    ELSE IF Head(text) = "\n" THEN << line >> \o LinesOf(Tail(text), <<>>)
    ELSE LinesOf(Tail(text), Append(line, Head(text)))
OutputLines == IF reduced.text = <<>> THEN <<>> ELSE LinesOf(reduced.text, <<>>)

\* the nodes of a tree, each named by the child positions that lead to it
RECURSIVE PathsOf(_)
PathsOf(node) ==
    { <<>> } \cup UNION { { <<k>> \o q : q \in PathsOf(node.childNodes[k]) } :
                            k \in 1..Len(node.childNodes) }
RECURSIVE NodeAt(_, _)
NodeAt(node, path) ==
    IF path = <<>> THEN node ELSE NodeAt(node.childNodes[Head(path)], Tail(path))
IsPrefix(p, q) == Len(p) <= Len(q) /\ SubSeq(q, 1, Len(p)) = p

\* the node the reduction starts at: the BODY element, or the top node
StartNode ==
    LET body == QueryBodyIn(doc.root.childNodes)
    IN  IF body # <<>> THEN body[1] ELSE doc.root

\* the line each node of a tree would give, all nodes in depth-first
\* pre-order, the tree's top at the given depth
RECURSIVE PreorderLines(_, _)
RECURSIVE PreorderLinesOfAll(_, _)
PreorderLines(node, depth) ==
    LET text == Trim(NodeText(node))
        line == IF node.tagName = "A" THEN LinkText(text, node.href) ELSE text
    IN  << Indent(depth) \o line >> \o PreorderLinesOfAll(node.childNodes, depth + 1)
PreorderLinesOfAll(kids, depth) ==
    IF kids = <<>> THEN <<>>
    ELSE PreorderLines(Head(kids), depth) \o PreorderLinesOfAll(Tail(kids), depth)

\* xs is ys with some elements left out
RECURSIVE IsSubsequence(_, _)
IsSubsequence(xs, ys) ==
    IF xs = <<>> THEN TRUE
    ELSE IF ys = <<>> THEN FALSE
    ELSE IF Head(xs) = Head(ys) THEN IsSubsequence(Tail(xs), Tail(ys))
    ELSE IsSubsequence(xs, Tail(ys))

\* the trimmed texts and the hrefs of the nodes of the document
DocTexts == { Trim(NodeText(NodeAt(doc.root, p))) : p \in PathsOf(doc.root) } \ { <<>> }
DocHrefs == { NodeAt(doc.root, p).href : p \in PathsOf(doc.root) }
\* the line is the plain line or a link line of the text
Shows(line, text) ==
    \/ TrimLeft(line) = text
    \/ \E href \in DocHrefs : TrimLeft(line) = LinkText(text, href)

(***************************************************************************)
(* The properties.                                                         *)
(***************************************************************************)

\* C1: when scrapeUrls returns, the URLs of the returned records are exactly
\* the input URLs that pass validateUrl, duplicates included, in input order.
C1_OneRecordPerValidUrlInOrder ==
    outcome.kind = "returned" => UrlsOf(outcome.value) = SelectSeq(urls, validateUrl)

\* a call returned three records for two distinct URLs, one of them given
\* twice, fetched in two waves
C1_Witness ==
    /\ outcome.kind = "returned"
    /\ Len(outcome.value) = 3
    /\ outcome.value[1].url = outcome.value[3].url
    /\ outcome.value[1].url # outcome.value[2].url
    /\ maxConcurrent = 2

\* C2: at most maxConcurrent fetchPage calls have started and not settled.
C2_AtMostMaxConcurrentPending == Cardinality(PendingFetches) <= maxConcurrent

\* two fetches are pending at once under maxConcurrent = 2, with three URLs to fetch
C2_Witness ==
    /\ maxConcurrent = 2
    /\ Len(validUrls) = 3
    /\ Cardinality(PendingFetches) = 2

\* C3: while a fetch of a wave is pending, no fetch of a later wave has started.
C3_WaveBarrier ==
    \A f \in 1..Len(fetches), g \in 1..Len(fetches) :
        WaveOf(fetches[g]) > WaveOf(fetches[f]) => ~FetchPending(fetches[f])

\* a fetch of the second wave is pending after a first wave of two fetches,
\* one that failed and one that succeeded
C3_Witness ==
    /\ Len(fetches) = 3
    /\ FetchPending(fetches[3])
    /\ WaveOf(fetches[3]) = 1
    /\ fetches[1].pc = "fulfilled" /\ fetches[1].html = "null"
    /\ fetches[2].pc = "fulfilled" /\ fetches[2].html # "null"

\* C4: when scrapeUrls returns there is one record per valid URL; the record
\* of a URL whose fetch failed (fetchPage gave null) has error set and empty
\* content, the record of any other URL has no error and the reduction of the
\* HTML its own fetch read; and the call throws only when no URL is valid or
\* an operation on a render resource failed, never for a failed navigation
\* or read.
C4_FailuresAreIsolated ==
    /\ outcome.kind = "returned" =>
        /\ Len(outcome.value) = Len(validUrls)
        /\ \A f \in 1..Len(fetches) :
            LET record == outcome.value[fetches[f].position] IN
            /\ record.url = fetches[f].url
            /\ IF fetches[f].html = "null"
               THEN record.error # "" /\ record.content = <<>>
               ELSE record.error = "" /\ record.content = parseHtml(HtmlOf(fetches[f].html))
    /\ outcome.kind = "thrown" => (validUrls = <<>> \/ ResourceFailure)

\* three records are returned, the second with an error and no content, the
\* first and the third without error and with different content
C4_Witness ==
    /\ outcome.kind = "returned"
    /\ Len(outcome.value) = 3
    /\ outcome.value[2].error # "" /\ outcome.value[2].content = <<>>
    /\ outcome.value[1].error = "" /\ outcome.value[1].content # <<>>
    /\ outcome.value[3].error = "" /\ outcome.value[3].content # <<>>
    /\ outcome.value[1].content # outcome.value[3].content

\* C5: close() is called at most once on a session, and when the call has
\* ended it has been called once on every session that was created.
C5_EverySessionClosedOnce ==
    /\ \A j \in 1..Len(contexts) : contexts[j].closes <= 1
    /\ pc = "done" =>
        \A j \in 1..Len(contexts) : Created(contexts[j]) => contexts[j].closes = 1

\* C6: close() is called at most once on the browser instance, not before it
\* was launched, and when the call has ended after a launch it has been
\* called once.
C6_BrowserClosedOnce ==
    /\ browser.closes <= 1
    /\ browser.closes = 1 => Launched
    /\ (pc = "done" /\ Launched) => browser.closes = 1

\* the call ended with the error of a session's close(), the browser closed once
C6_Witness ==
    /\ pc = "done"
    /\ outcome = Thrown("context.close failed")
    /\ browser.state = "closed"
    /\ browser.closes = 1

\* C7: once validation has run on a list with no valid URL, the call has
\* thrown the input error, has no result, and no browser instance, session
\* or page was asked for.
C7_NoValidUrlFailsFast ==
    (pc # "start" /\ NoUrlIsValid) =>
        /\ pc = "done"
        /\ outcome = Thrown(InputError)
        /\ results = <<>>
        /\ browser = [state |-> "none", launches |-> 0, closes |-> 0]
        /\ contexts = <<>>
        /\ fetches = <<>>

\* a call on a non-empty list of invalid URLs only has ended
C7_Witness ==
    /\ pc = "done"
    /\ urls # <<>>
    /\ NoUrlIsValid
    /\ outcome.kind = "thrown"

\* C8: no record and no fetch carries a URL that lacks a protocol or a host,
\* and the input error is thrown exactly when no input URL has both.
C8_InvalidUrlsAreDropped ==
    /\ \A k \in 1..Len(results) : HasProtocolAndHost(results[k].url)
    /\ \A k \in 1..Len(outcome.value) : HasProtocolAndHost(outcome.value[k].url)
    /\ \A f \in 1..Len(fetches) : HasProtocolAndHost(fetches[f].url)
    /\ outcome = Thrown(InputError) <=> (pc # "start" /\ NoUrlIsValid)

\* a call given an unparsable URL, a URL without host and a valid URL returned
\* one record
C8_Witness ==
    /\ outcome.kind = "returned"
    /\ Len(outcome.value) = 1
    /\ \E k \in 1..Len(urls) : ~NewURL(urls[k]).ok
    /\ \E k \in 1..Len(urls) : NewURL(urls[k]).ok /\ NewURL(urls[k]).host = ""

\* C9: no line of the reduced text contains the text of a SCRIPT or STYLE
\* element of the document.
C9_ScriptTextNeverInOutput ==
    (reduced.done /\ doc.kind = "html") =>
        \A p \in PathsOf(doc.root) :
            LET node == NodeAt(doc.root, p)
                text == Trim(NodeText(node))
            IN  (node.tagName \in {"SCRIPT", "STYLE"} /\ text # <<>>) =>
                    \A k \in 1..Len(OutputLines) : ~Contains(OutputLines[k], text)

\* C10: for a link whose href is empty or starts with '#' or 'javascript:',
\* no line is the link line of that link, and its text is a bare line only
\* if some node outside the link has the same trimmed text.
C10_SuppressedLinkTextDoesNotAppear ==
    (reduced.done /\ doc.kind = "html") =>
        \A p \in PathsOf(doc.root) :
            LET node == NodeAt(doc.root, p)
                text == Trim(NodeText(node))
            IN  (node.tagName = "A" /\ ~LinkHrefOk(node.href) /\ text # <<>>) =>
                    /\ \A k \in 1..Len(OutputLines) :
                            TrimLeft(OutputLines[k]) # LinkText(text, node.href)
                    /\ (\E k \in 1..Len(OutputLines) : TrimLeft(OutputLines[k]) = text) =>
                            \E q \in PathsOf(doc.root) :
                                /\ ~IsPrefix(p, q)
                                /\ Trim(NodeText(NodeAt(doc.root, q))) = text

\* C11: each distinct trimmed text of the document is shown by at most one
\* output line, plain or link, and the output lines are, in order, lines of
\* the document's nodes taken in depth-first pre-order.
C11_TextsOnceInPreorder ==
    (reduced.done /\ doc.kind = "html") =>
        /\ \A text \in DocTexts :
                Cardinality({ k \in 1..Len(OutputLines) : Shows(OutputLines[k], text) }) <= 1
        /\ IsSubsequence(OutputLines, PreorderLines(StartNode, 0))

\* <body><p>Hello</p><p>Hello</p></body> was reduced to the line of the
\* body and a single Hello line
C11_Witness ==
    /\ reduced.done
    /\ doc = HelloTwice
    /\ OutputLines = << <<"H","e","l","l","o","H","e","l","l","o">>,
                        <<" "," ","H","e","l","l","o">> >>

\* C12: a call of queryLLM never ends with a rejected promise: after every
\* failure (the client cannot be constructed, the request fails, the
\* response has no choice) the promise is fulfilled with the error set.
C12_QueryLLMNeverThrows ==
    llm.pc = "done" =>
        /\ llm.outcome.kind = "resolved"
        /\ llm.failure # "" => llm.outcome.error # Null

\* C13: no two pending fetches use the same session; the sessions are
\* min(number of valid URLs, maxConcurrent) and the fetch at position x of a
\* wave uses session x mod that number.
C13_OneFetchPerSession ==
    /\ \A f, g \in PendingFetches : f # g => fetches[f].context # fetches[g].context
    /\ fetches # <<>> => Len(contexts) = Min(Len(validUrls), maxConcurrent)
    /\ \A f \in 1..Len(fetches) :
            fetches[f].context =
                (((fetches[f].position - 1) % maxConcurrent) % Len(contexts)) + 1

\* the only fetch of the second wave is pending on the session that served
\* the first fetch of the first wave, which used two sessions
C13_Witness ==
    /\ Len(fetches) = 3
    /\ Len(contexts) = 2
    /\ fetches[1].context # fetches[2].context
    /\ PendingFetches = {3}
    /\ fetches[3].context = fetches[1].context

\* C14: page.close() is called exactly once on every page fetchPage has
\* opened, and has settled before fetchPage settles, whether the fetch
\* fulfils with the HTML or with null; a page to which close() was not yet
\* called belongs to a pending fetch.
C14_PageClosedOnceBeforeSettle ==
    \A f \in 1..Len(fetches) :
        LET fetch == fetches[f] IN
        /\ fetch.pageCloses <= 1
        /\ fetch.pageCloses = 1 <=> fetch.page \in {"closing", "closed", "closeFailed"}
        /\ (~FetchPending(fetch) /\ fetch.page # "none") =>
                fetch.page \in {"closed", "closeFailed"}
        /\ fetch.pc = "fulfilled" => fetch.page = "closed"

\* one fetch has fulfilled with the page's HTML and another with null, each
\* with its page closed by one call
C14_Witness ==
    \E f, g \in 1..Len(fetches) :
        /\ fetches[f].pc = "fulfilled" /\ fetches[f].html # "null"
        /\ fetches[g].pc = "fulfilled" /\ fetches[g].html = "null"
        /\ fetches[f].page = "closed" /\ fetches[f].pageCloses = 1
        /\ fetches[g].page = "closed" /\ fetches[g].pageCloses = 1

\* C15: a session's close() is called only after every wave has fulfilled
\* and its records were appended; and on a run where all waves completed,
\* browser.close() is called only after the close() of every session has
\* settled.
C15_TeardownIsOrdered ==
    /\ \A j \in 1..Len(contexts) :
            contexts[j].closes >= 1 =>
                /\ AllWavesComplete
                /\ Len(fetches) = Len(validUrls)
                /\ \A f \in 1..Len(fetches) : fetches[f].pc = "fulfilled"
    /\ (AllWavesComplete /\ browser.closes >= 1) =>
            \A j \in 1..Len(contexts) : contexts[j].state \in {"closed", "closeFailed"}

\* C16: every position of the valid URLs is dispatched to fetchPage at most
\* once, with the URL at that position, and exactly once when the waves have
\* all completed, also when its fetch gave null; a URL without protocol or
\* host is never dispatched, and no URL more often than it occurs in the
\* input.
C16_NothingIsRetried ==
    /\ \A p \in 1..Len(validUrls) : Cardinality(DispatchesOf(p)) <= 1
    /\ \A f \in 1..Len(fetches) :
            /\ fetches[f].position \in 1..Len(validUrls)
            /\ fetches[f].url = validUrls[fetches[f].position]
    /\ \A url \in UrlStrings :
            Cardinality({ f \in 1..Len(fetches) : fetches[f].url = url }) <=
                IF HasProtocolAndHost(url)
                THEN Cardinality({ k \in 1..Len(urls) : urls[k] = url })
                ELSE 0
    /\ (AllWavesComplete \/ outcome.kind = "returned") =>
            /\ \A p \in 1..Len(validUrls) : Cardinality(DispatchesOf(p)) = 1
            /\ Len(fetches) = Cardinality({ k \in 1..Len(urls) : HasProtocolAndHost(urls[k]) })

\* a call given an invalid URL and two valid ones returned after two
\* fetches, one of which had failed
C16_Witness ==
    /\ outcome.kind = "returned"
    /\ \E k \in 1..Len(urls) : ~HasProtocolAndHost(urls[k])
    /\ Len(fetches) = 2
    /\ \E f \in 1..Len(fetches) : fetches[f].html = "null"

\* C18: once browser.close() has been called, no fetchPage call is pending
\* and no page is open, on whichever path the call came to its finally
\* block.
C18_NoFetchInFlightAtBrowserClose ==
    browser.closes >= 1 =>
        \A f \in 1..Len(fetches) : ~FetchPending(fetches[f]) /\ ~PageOpen(fetches[f])

\* C19: given a list of valid URLs, when every backend operation settles
\* the call eventually returns or throws, with browser.close() called and
\* settled if a browser was launched; and it never dispatches more than
\* ceil(N / maxConcurrent) waves.
C19_Terminates ==
    /\ <>(/\ pc = "done"
          /\ outcome.kind \in {"returned", "thrown"}
          /\ Launched => (browser.closes = 1 /\ browser.state \in {"closed", "closeFailed"}))
    /\ [](Cardinality(WavesDispatched) <= CeilDiv(Len(validUrls), maxConcurrent))

\* a call on three valid URLs with maxConcurrent 2 has returned after two
\* waves, with the browser closed
C19_Witness ==
    /\ pc = "done"
    /\ outcome.kind = "returned"
    /\ Len(validUrls) = 3 /\ Len(urls) = 3
    /\ maxConcurrent = 2
    /\ Cardinality(WavesDispatched) = 2
    /\ browser.state = "closed"

====
